---- MODULE Spec2Model ----
(***************************************************************************)
(* A model of the Notion bridge of src/client.py: the Connection           *)
(* Supervisor loop of main(), the tool dispatcher call_tool and the        *)
(* helpers it calls (_resolve_page_id, _search_page_by_text,               *)
(* _fetch_all_blocks, _extract_text_from_blocks).                          *)
(*                                                                         *)
(* Python values are modelled as follows.                                  *)
(*   str    a sequence of one-character strings (so that strip, lower,     *)
(*          split and "in" can be computed), wrapped in a tagged value     *)
(*          where a field may also hold a non-string                       *)
(*   dict   a TLA+ function whose DOMAIN is the set of keys present        *)
(*   list   a sequence                                                     *)
(***************************************************************************)
EXTENDS Integers, Sequences, FiniteSets, TLC

VARIABLES
    env,             \* os.environ: NOTION_TOKEN, XIAOZHI_WSS, MCP_ENDPOINT
    pc,              \* position of main()
    error,           \* the exception main() raised, None while it runs
    notion,          \* module global `notion`: TRUE once Client(...) is bound
    endpoint,        \* main()'s local `endpoint`
    delay_seconds,   \* main()'s local `delay_seconds` (0: not yet bound)
    waits,           \* history: delays slept since start / the last clean return
    prevEnd,         \* history: how the previous _run_once ended
    prevDelay,       \* history: delay_seconds when the previous _run_once ended
    slept,           \* history: the delay slept since the previous _run_once ended
    inbox,           \* the tool invocation in flight on the transport
    outcome,         \* what call_tool did with it
    search_results,  \* the document service: resp["results"] of notion.search
    block_pages      \* the document service: the pages of blocks.children.list

vars == <<env, pc, error, notion, endpoint, delay_seconds, waits, prevEnd, prevDelay, slept,
          inbox, outcome, search_results, block_pages>>

superVars == <<env, pc, error, notion, endpoint, delay_seconds, waits, prevEnd, prevDelay,
               slept>>
toolVars == <<inbox, outcome>>
worldVars == <<search_results, block_pages>>

(***************************************************************************)
(* Bounds of the model.                                                    *)
(***************************************************************************)
\* how many slept delays the history `waits` records
MaxWaits == 9
\* how many pages the block pagination of a document has at most
MaxPages == 3
\* how many blocks the flattener is given at most
MaxBlocks == 3
\* how many candidates a search returns at most
MaxResults == 3

(***************************************************************************)
(* Program constants.                                                      *)
(***************************************************************************)
InitialDelay == 1
MaxDelay == 60
TokenScore == 3
SubstringScore == 1
ResumeBonus == 4
InitialBestScore == -1

None == "None"

Min(a, b) == IF a < b THEN a ELSE b

(***************************************************************************)
(* Python strings and values.                                              *)
(***************************************************************************)
T_empty == <<>>
T_blank == <<" ", " ">>
T_p1 == <<"p", "1">>
T_p1_padded == <<" ", "p", "1", " ">>
T_p2 == <<"p", "2">>
T_p3 == <<"p", "3">>
T_p6 == <<"p", "6">>
T_notes == <<"n", "o", "t", "e", "s">>
T_resume == <<"r", "e", "s", "u", "m", "e">>
T_my_resume_notes == <<"m", "y", " ", "r", "e", "s", "u", "m", "e", " ", "n", "o", "t", "e", "s">>
T_untitled_query == <<"u", "n", "t", "i", "t", "l", "e", "d">>
T_zzz == <<"z", "z", "z">>
T_jianli == <<"U+7B80", "U+5386">>
T_note_taking == <<"N", "o", "t", "e", "-", "t", "a", "k", "i", "n", "g">>
T_Meeting_Notes == <<"M", "e", "e", "t", "i", "n", "g", " ", "N", "o", "t", "e", "s">>
T_Resume_2023 == <<"R", "e", "s", "u", "m", "e", " ", "2", "0", "2", "3">>
T_Resume_Archive == <<"R", "e", "s", "u", "m", "e", " ", "A", "r", "c", "h", "i", "v", "e">>
T_Footnotes == <<"F", "o", "o", "t", "n", "o", "t", "e", "s">>
T_Doc == <<"D", "o", "c">>
T_Untitled == <<"U", "n", "t", "i", "t", "l", "e", "d">>
T_a == <<"a">>
T_b == <<"b">>
T_space_a == <<" ", "a">>
T_space == <<" ">>
T_newline == <<"\n">>
T_a_newline == <<"a", "\n">>

UpperCase == <<"A", "B", "C", "D", "E", "F", "G", "H", "I", "J", "K", "L", "M",
               "N", "O", "P", "Q", "R", "S", "T", "U", "V", "W", "X", "Y", "Z">>
LowerCase == <<"a", "b", "c", "d", "e", "f", "g", "h", "i", "j", "k", "l", "m",
               "n", "o", "p", "q", "r", "s", "t", "u", "v", "w", "x", "y", "z">>
Digits == {"0", "1", "2", "3", "4", "5", "6", "7", "8", "9"}
\* the characters of \u4e00-\u9fff that the model's texts use ("U+7B80", "U+5386":
\* the two ideographs of the word the scorer looks for), each one character
CJK == {"U+7B80", "U+5386"}
Range(f) == {f[i] : i \in DOMAIN f}

\* what str.strip() removes
IsSpace(c) == c \in {" ", "\t", "\n", "\r", "\f"}

RECURSIVE lstrip(_)
lstrip(t) == IF t # <<>> /\ IsSpace(Head(t)) THEN lstrip(Tail(t)) ELSE t

RECURSIVE rstrip(_)
rstrip(t) == IF t # <<>> /\ IsSpace(t[Len(t)]) THEN rstrip(SubSeq(t, 1, Len(t) - 1)) ELSE t

\* str.strip()
strip(t) == rstrip(lstrip(t))

\* str.lower(), one character
lower_char(c) ==
    IF c \in Range(UpperCase)
    THEN LowerCase[CHOOSE i \in DOMAIN UpperCase : UpperCase[i] = c]
    ELSE c

\* str.lower()
lower(t) == [i \in DOMAIN t |-> lower_char(t[i])]

\* needle in hay, for strings
Contains(hay, needle) ==
    \E i \in 0..(Len(hay) - Len(needle)) : SubSeq(hay, i + 1, i + Len(needle)) = needle

\* "".join(texts)
RECURSIVE concat(_)
concat(texts) == IF texts = <<>> THEN <<>> ELSE Head(texts) \o concat(Tail(texts))

\* "\n".join(lines)
RECURSIVE join_lines(_)
join_lines(lines) ==
    IF lines = <<>> THEN <<>>
    ELSE IF Len(lines) = 1 THEN lines[1]
    ELSE lines[1] \o <<"\n">> \o join_lines(Tail(lines))

\* A Python value that may or may not be a string: t is its type, s its text
\* (the digits of an int, empty for None).
Str(t) == [t |-> "str", s |-> t]
PyNone == [t |-> "none", s |-> <<>>]
PyInt7 == [t |-> "int", s |-> <<"7">>]

\* isinstance(v, str)
IsStr(v) == v.t = "str"

\* bool(v)
Truthy(v) ==
    CASE v.t = "none" -> FALSE
      [] v.t = "str" -> v.s # <<>>
      [] v.t = "int" -> v.s # <<"0">>

\* d.get(k, default) of a dict
Get(d, k, default) == IF k \in DOMAIN d THEN d[k] ELSE default

EmptyDict == [k \in {} |-> 0]

\* isinstance(v, dict): every other value of the model carries its type in t
IsDict(v) == "t" \notin DOMAIN v

(***************************************************************************)
(* Text Flattener and title extraction.                                    *)
(***************************************************************************)
\* "".join(item.get("plain_text", "") for item in rich_text)
plain_texts(items) == concat([i \in DOMAIN items |-> Get(items[i], "plain_text", <<>>)])

\* block.get(block_type, {}) if block_type else {}
block_payload(block, block_type) ==
    IF block_type # None /\ block_type # "" THEN Get(block, block_type, EmptyDict)
    ELSE EmptyDict

_extract_rich_text(block) ==
    strip(plain_texts(Get(block_payload(block, Get(block, "type", None)), "rich_text", <<>>)))

\* the title of one property value, "" unless it is a title property
property_title(value) ==
    IF IsDict(value) /\ Get(value, "type", None) = "title"
    THEN strip(plain_texts(Get(value, "title", <<>>)))
    ELSE <<>>

\* for value in properties.values(): ...; return "Untitled"
RECURSIVE title_loop(_, _)
title_loop(values, i) ==
    IF i > Len(values) THEN T_Untitled
    ELSE IF property_title(values[i]) # <<>> THEN property_title(values[i])
    ELSE title_loop(values, i + 1)

\* properties.values() is the sequence of the page's property values
_extract_title(page) == title_loop(Get(page, "properties", <<>>), 1)

\* if text: lines.append(text)
append_text_keep_empty(lines, text) == Append(lines, text)
append_text(lines, text) == IF text # <<>> THEN Append(lines, text) ELSE lines

\* for block in blocks: ...
RECURSIVE text_lines(_, _, _)
text_lines(blocks, i, lines) ==
    IF i > Len(blocks) THEN lines
    ELSE text_lines(blocks, i + 1, append_text(lines, _extract_rich_text(blocks[i])))

_extract_text_from_blocks(blocks) == join_lines(text_lines(blocks, 1, <<>>))

(***************************************************************************)
(* Fuzzy Search Scorer.                                                    *)
(***************************************************************************)
\* a character outside [^a-zA-Z0-9\u4e00-\u9fff]
IsTokenChar(c) == c \in Range(LowerCase) \cup Range(UpperCase) \cup Digits \cup CJK

RECURSIVE split_tokens(_, _, _, _)
split_tokens(t, i, cur, parts) ==
    IF i > Len(t) THEN (IF cur = <<>> THEN parts ELSE Append(parts, cur))
    ELSE IF IsTokenChar(t[i]) THEN split_tokens(t, i + 1, Append(cur, t[i]), parts)
    ELSE split_tokens(t, i + 1, <<>>, IF cur = <<>> THEN parts ELSE Append(parts, cur))

\* re.split(...) of the lower-cased text, empty parts dropped
_tokenize(text) == split_tokens(lower(text), 1, <<>>, <<>>)

RECURSIVE score_loop(_, _, _, _, _)
score_loop(query_tokens, i, title_tokens, title, score) ==
    IF i > Len(query_tokens) THEN score
    ELSE score_loop(query_tokens, i + 1, title_tokens, title,
                    IF query_tokens[i] \in title_tokens THEN score + TokenScore
                    ELSE IF Contains(title, query_tokens[i]) THEN score + SubstringScore
                    ELSE score)

\* the "resume-study" bonus on top of the token score
resume_bonus(title, query_text, score) ==
    IF /\ Contains(lower(query_text), T_resume) \/ Contains(query_text, T_jianli)
       /\ Contains(lower(title), T_resume) \/ Contains(title, T_jianli)
    THEN score + ResumeBonus
    ELSE score

\* score_loop is given title.lower(); a token is never empty
_score_title_match(title, query_text) ==
    resume_bonus(title, query_text,
                 score_loop(_tokenize(query_text), 1, Range(_tokenize(title)),
                            lower(title), 0))

\* the loop over results: the index of best_page (0: None) once result i is scored
RECURSIVE best_loop(_, _, _, _, _)
best_step(results, query_text, i, best, best_score, score) ==
    IF score > best_score
    THEN best_loop(results, query_text, i + 1, i, score)
    ELSE best_loop(results, query_text, i + 1, best, best_score)

best_loop(results, query_text, i, best, best_score) ==
    IF i > Len(results) THEN best
    ELSE best_step(results, query_text, i, best, best_score,
                   _score_title_match(_extract_title(results[i]), query_text))

SearchCall(query_text) == [op |-> "search", arg |-> Str(query_text), start_cursor |-> 0]

SearchFailed(err, calls) == [err |-> err, id |-> PyNone, title |-> <<>>, calls |-> calls]

\* chosen_id = chosen.get("id") and what follows
search_return(query_text, chosen) ==
    IF ~Truthy(Get(chosen, "id", PyNone))
    THEN SearchFailed("ValueError: Found result without page id for query",
                      <<SearchCall(query_text)>>)
    ELSE [err |-> "", id |-> chosen["id"], title |-> _extract_title(chosen),
          calls |-> <<SearchCall(query_text)>>]

\* chosen = best_page or results[0]: an empty dict is falsy, like None
search_chosen(query_text, results, best) ==
    search_return(query_text,
                  IF best # 0 /\ DOMAIN results[best] # {} THEN results[best]
                  ELSE results[1])

\* results = resp.get("results", []) and what follows
search_pick(query_text, results) ==
    IF results = <<>>
    THEN SearchFailed("ValueError: No Notion page found for query",
                      <<SearchCall(query_text)>>)
    ELSE search_chosen(query_text, results,
                       best_loop(results, query_text, 1, 0, InitialBestScore))

_search_page_by_text(query_text) ==
    IF ~notion
    THEN SearchFailed("RuntimeError: Notion client is not initialized", <<>>)
    ELSE search_pick(query_text, search_results)

(***************************************************************************)
(* Page Resolver.                                                          *)
(***************************************************************************)
\* arguments.get("query") or arguments.get("keyword") or arguments.get("utterance")
first_truthy(arguments) ==
    IF Truthy(Get(arguments, "query", PyNone)) THEN arguments["query"]
    ELSE IF Truthy(Get(arguments, "keyword", PyNone)) THEN arguments["keyword"]
    ELSE Get(arguments, "utterance", PyNone)

Resolved(err, page_id, matched_title, calls) ==
    [err |-> err, page_id |-> page_id, matched_title |-> matched_title, calls |-> calls]

\* return resolved_page_id, matched_title -- or the exception of the search
search_resolved(r) ==
    Resolved(r.err, r.id, IF r.err = "" THEN Str(r.title) ELSE PyNone, r.calls)

\* _resolve_page_id from line 137 on
resolve_by_text(query_text) ==
    IF IsStr(query_text) /\ strip(query_text.s) # <<>>
    THEN search_resolved(_search_page_by_text(strip(query_text.s)))
    ELSE Resolved("ValueError: Please provide page_id or query/keyword", PyNone, PyNone,
                  <<>>)

\* _resolve_page_id from line 133 on
resolve_given_search_first(arguments, page_id, by_text) ==
    IF by_text.err = "" THEN by_text
    ELSE IF IsStr(page_id) /\ strip(page_id.s) # <<>>
    THEN Resolved("", Str(strip(page_id.s)), PyNone, by_text.calls)
    ELSE by_text

resolve_given(arguments, page_id) ==
    IF IsStr(page_id) /\ strip(page_id.s) # <<>>
    THEN Resolved("", Str(strip(page_id.s)), PyNone, <<>>)
    ELSE resolve_by_text(first_truthy(arguments))

_resolve_page_id_search_first(arguments) ==
    resolve_given_search_first(arguments, Get(arguments, "page_id", PyNone),
                               resolve_by_text(first_truthy(arguments)))

_resolve_page_id(arguments) == resolve_given(arguments, Get(arguments, "page_id", PyNone))

(***************************************************************************)
(* Block Paginator.                                                        *)
(***************************************************************************)
\* The page of block_pages a cursor names: None (0) names the first
cursor_page(start_cursor) == IF start_cursor = 0 THEN 1 ELSE start_cursor

\* The document service's blocks.children.list: the cursor a response hands out
\* names the page that follows it.
blocks_children_list(block_id, start_cursor) ==
    [results |-> block_pages[cursor_page(start_cursor)],
     has_more |-> cursor_page(start_cursor) < Len(block_pages),
     next_cursor |-> IF cursor_page(start_cursor) < Len(block_pages)
                     THEN cursor_page(start_cursor) + 1
                     ELSE 0]

ListCall(page_id, cursor) == [op |-> "list", arg |-> page_id, start_cursor |-> cursor]

\* the while loop of _fetch_all_blocks: fetch_loop makes the call, fetch_step
\* extends blocks and breaks or moves the cursor on
RECURSIVE fetch_loop(_, _, _, _)
fetch_step_overwrite(page_id, blocks, calls, blocks_resp) ==
    IF ~blocks_resp.has_more
    THEN [blocks |-> blocks_resp.results, calls |-> calls]
    ELSE fetch_loop(page_id, blocks_resp.results, blocks_resp.next_cursor, calls)

fetch_step(page_id, blocks, calls, blocks_resp) ==
    IF ~blocks_resp.has_more
    THEN [blocks |-> blocks \o blocks_resp.results, calls |-> calls]
    ELSE fetch_loop(page_id, blocks \o blocks_resp.results, blocks_resp.next_cursor, calls)

fetch_loop(page_id, blocks, cursor, calls) ==
    fetch_step(page_id, blocks, Append(calls, ListCall(page_id, cursor)),
               blocks_children_list(page_id, cursor))

Fetched(err, r) == [err |-> err, blocks |-> r.blocks, calls |-> r.calls]

_fetch_all_blocks(page_id) ==
    IF ~notion
    THEN Fetched("RuntimeError: Notion client is not initialized",
                 [blocks |-> <<>>, calls |-> <<>>])
    ELSE Fetched("", fetch_loop(page_id, <<>>, 0, <<>>))

(***************************************************************************)
(* Tool Dispatcher.                                                        *)
(***************************************************************************)
page_read_aliases ==
    {"get_notion_page", "read_notion_page", "read_page_content",
     "summarize_notion_page", "study_notion_notes", "import_mcp_context"}

TitleProperty(text) == [type |-> "title", title |-> <<[plain_text |-> text]>>]

\* The document service's pages.retrieve
pages_retrieve(page_id) == [id |-> page_id, properties |-> <<TitleProperty(T_Doc)>>]

RetrieveCall(page_id) == [op |-> "retrieve", arg |-> page_id, start_cursor |-> 0]

Done(err, page_id, matched_title, blocks, result, calls) ==
    [err |-> err, page_id |-> page_id, matched_title |-> matched_title, blocks |-> blocks,
     result |-> result, calls |-> calls]

Failed(err, calls) == Done(err, PyNone, PyNone, <<>>, EmptyDict, calls)

\* the result of a page-read alias: matched_by_query_title only if matched_title
page_result(page_id, matched_title, title, content) ==
    IF Truthy(matched_title)
    THEN [page_id |-> page_id, title |-> title, content |-> content,
          matched_by_query_title |-> matched_title]
    ELSE [page_id |-> page_id, title |-> title, content |-> content]

\* the result of list_notion_blocks: one entry per block fetched
result_blocks(blocks) ==
    [idx \in DOMAIN blocks |->
        [index |-> idx - 1,
         id |-> Get(blocks[idx], "id", None),
         type |-> Get(blocks[idx], "type", None),
         has_children |-> Get(blocks[idx], "has_children", FALSE),
         text |-> _extract_rich_text(blocks[idx])]]

list_result(page_id, matched_title, blocks) ==
    [page_id |-> page_id, matched_by_query_title |-> matched_title,
     count |-> Len(result_blocks(blocks)), blocks |-> result_blocks(blocks)]

\* call_tool from line 250 on
respond(name, page_id, matched_title, blocks, calls) ==
    IF name \in page_read_aliases
    THEN Done("", page_id, matched_title, blocks,
              page_result(page_id, matched_title, _extract_title(pages_retrieve(page_id)),
                          _extract_text_from_blocks(blocks)),
              Append(calls, RetrieveCall(page_id)))
    ELSE Done("", page_id, matched_title, blocks,
              list_result(page_id, matched_title, blocks), calls)

\* call_tool from line 248 on, with what _fetch_all_blocks returned or raised
after_fetch(name, resolved, fetched) ==
    IF fetched.err # "" THEN Failed(fetched.err, resolved.calls \o fetched.calls)
    ELSE respond(name, resolved.page_id, resolved.matched_title, fetched.blocks,
                 resolved.calls \o fetched.calls)

\* call_tool from line 247 on, with what _resolve_page_id returned or raised
after_resolve(name, resolved) ==
    IF resolved.err # "" THEN Failed(resolved.err, resolved.calls)
    ELSE after_fetch(name, resolved, _fetch_all_blocks(resolved.page_id))

run_tool(name, arguments) == after_resolve(name, _resolve_page_id(arguments))

\* the name is checked only once the page is resolved and read
late_check(name, done) ==
    IF name \notin page_read_aliases \cup {"list_notion_blocks"}
    THEN Failed("ValueError: Unknown tool", done.calls)
    ELSE done

call_tool_late_check(name, arguments) ==
    IF ~notion THEN Failed("RuntimeError: Notion client is not initialized", <<>>)
    ELSE late_check(name, run_tool(name, arguments))

call_tool(name, arguments) ==
    IF ~notion THEN Failed("RuntimeError: Notion client is not initialized", <<>>)
    ELSE IF name \notin page_read_aliases \cup {"list_notion_blocks"}
    THEN Failed("ValueError: Unknown tool", <<>>)
    ELSE run_tool(name, arguments)

\* what server.run records of one invocation
Handled(request, done) ==
    [name |-> request.name, arguments |-> request.arguments, err |-> done.err,
     page_id |-> done.page_id, matched_title |-> done.matched_title,
     blocks |-> done.blocks, result |-> done.result, calls |-> done.calls]

\* server.run delivers the invocation in flight to call_tool and reports what it
\* returned or raised; an invocation that fails does not end the session
CallTool ==
    /\ pc = "serving"
    /\ inbox # <<>>
    /\ outcome' = <<Handled(Head(inbox), call_tool(Head(inbox).name, Head(inbox).arguments))>>
    /\ inbox' = Tail(inbox)
    /\ UNCHANGED <<superVars, worldVars>>

(***************************************************************************)
(* Connection Supervisor: main() and _run_once().                          *)
(***************************************************************************)
EnvValues == [NOTION_TOKEN : {None, "", "secret"},
              XIAOZHI_WSS  : {None, "", "wss://xiaozhi"},
              MCP_ENDPOINT : {None, "", "wss://mcp"}]

\* Python truthiness of an Optional[str] read from the environment
EnvTruthy(v) == v # None /\ v # ""

\* os.getenv("XIAOZHI_WSS") or os.getenv("MCP_ENDPOINT")
_resolve_endpoint(e) ==
    IF EnvTruthy(e.XIAOZHI_WSS) THEN e.XIAOZHI_WSS ELSE e.MCP_ENDPOINT

\* min(delay_seconds * 2, 60)
NextDelay_NoCap(d) == d * 2
NextDelay(d) == Min(d * 2, MaxDelay)

Record(ws, d) == IF Len(ws) < MaxWaits THEN Append(ws, d) ELSE ws

InitSuper ==
    /\ pc = "start"
    /\ error = None
    /\ notion = FALSE
    /\ endpoint = None
    /\ delay_seconds = 0
    /\ waits = <<>>
    /\ prevEnd = "none"
    /\ prevDelay = 0
    /\ slept = 0

\* main(), up to the loop: validate the configuration, bind the client
Startup ==
    /\ pc = "start"
    /\ LET token == env.NOTION_TOKEN
           ep == _resolve_endpoint(env)
       IN  /\ endpoint' = ep
           /\ \/ /\ ~EnvTruthy(token)
                 /\ error' = "Missing NOTION_TOKEN"
                 /\ pc' = "raised"
                 /\ UNCHANGED <<notion, delay_seconds>>
              \/ /\ EnvTruthy(token)
                 /\ ~EnvTruthy(ep)
                 /\ error' = "Missing XIAOZHI_WSS or MCP_ENDPOINT"
                 /\ pc' = "raised"
                 /\ UNCHANGED <<notion, delay_seconds>>
              \/ /\ EnvTruthy(token)
                 /\ EnvTruthy(ep)
                 /\ notion' = TRUE
                 /\ delay_seconds' = InitialDelay
                 /\ pc' = "attempt"
                 /\ UNCHANGED error
    /\ UNCHANGED <<env, waits, prevEnd, prevDelay, slept, toolVars, worldVars>>

\* while True: try: await _run_once(endpoint) -- enters websocket_client(endpoint)
RunOnce ==
    /\ pc = "attempt"
    /\ pc' = "connecting"
    /\ UNCHANGED <<env, error, notion, endpoint, delay_seconds, waits, prevEnd, prevDelay, slept,
                   toolVars, worldVars>>

\* websocket_client(endpoint) raises: caught by `except Exception`
ConnectFails ==
    /\ pc = "connecting"
    /\ pc' = "except"
    /\ prevEnd' = "exception"
    /\ prevDelay' = delay_seconds
    /\ slept' = 0
    /\ UNCHANGED <<env, error, notion, endpoint, delay_seconds, waits, toolVars, worldVars>>

\* the transport is up: await server.run(...)
ConnectOk ==
    /\ pc = "connecting"
    /\ pc' = "serving"
    /\ UNCHANGED <<env, error, notion, endpoint, delay_seconds, waits, prevEnd, prevDelay, slept,
                   toolVars, worldVars>>

\* server.run or the transport raises: caught by `except Exception`
ServeRaises ==
    /\ pc = "serving"
    /\ pc' = "except"
    /\ prevEnd' = "exception"
    /\ prevDelay' = delay_seconds
    /\ slept' = 0
    /\ UNCHANGED <<env, error, notion, endpoint, delay_seconds, waits, toolVars, worldVars>>

\* server.run returns: delay_seconds = 1, and straight back to the top of the loop
ServeReturns_NoReset ==
    /\ pc = "serving"
    /\ pc' = "attempt"
    /\ prevEnd' = "clean"
    /\ prevDelay' = delay_seconds
    /\ slept' = 0
    /\ waits' = <<>>
    /\ UNCHANGED <<env, error, notion, endpoint, delay_seconds, toolVars, worldVars>>

ServeReturns ==
    /\ pc = "serving"
    /\ delay_seconds' = InitialDelay
    /\ pc' = "attempt"
    /\ prevEnd' = "clean"
    /\ prevDelay' = delay_seconds
    /\ slept' = 0
    /\ waits' = <<>>
    /\ UNCHANGED <<env, error, notion, endpoint, toolVars, worldVars>>

\* the handler prints and starts asyncio.sleep(delay_seconds)
BeginSleep_Reraise ==
    /\ pc = "except"
    /\ pc' = "raised"
    /\ error' = "Connection error"
    /\ UNCHANGED <<env, notion, endpoint, delay_seconds, waits, prevEnd, prevDelay, slept,
                   toolVars, worldVars>>

BeginSleep ==
    /\ pc = "except"
    /\ pc' = "sleeping"
    /\ UNCHANGED <<env, error, notion, endpoint, delay_seconds, waits, prevEnd, prevDelay, slept,
                   toolVars, worldVars>>

\* the sleep is over: delay_seconds = min(delay_seconds * 2, 60), back to the top
EndSleep_DoubleFirst ==
    /\ pc = "sleeping"
    /\ slept' = NextDelay(delay_seconds)
    /\ waits' = Record(waits, NextDelay(delay_seconds))
    /\ delay_seconds' = NextDelay(delay_seconds)
    /\ pc' = "attempt"
    /\ UNCHANGED <<env, error, notion, endpoint, prevEnd, prevDelay, toolVars, worldVars>>

EndSleep ==
    /\ pc = "sleeping"
    /\ slept' = delay_seconds
    /\ waits' = Record(waits, delay_seconds)
    /\ delay_seconds' = NextDelay(delay_seconds)
    /\ pc' = "attempt"
    /\ UNCHANGED <<env, error, notion, endpoint, prevEnd, prevDelay, toolVars, worldVars>>

Init ==
    /\ env \in EnvValues
    /\ InitSuper
    /\ inbox = <<>>
    /\ outcome = <<>>
    /\ search_results = <<>>
    /\ block_pages = <<>>

Next ==
    \/ Startup
    \/ RunOnce
    \/ ConnectFails
    \/ ConnectOk
    \/ ServeRaises
    \/ ServeReturns
    \/ BeginSleep
    \/ EndSleep

Spec == Init /\ [][Next]_vars

\* asyncio runs main() whenever it is runnable, and a sleep of a finite delay ends;
\* nothing makes a connection attempt or a serving session end
LiveSpec ==
    Spec /\ WF_vars(Startup) /\ WF_vars(RunOnce) /\ WF_vars(BeginSleep) /\ WF_vars(EndSleep)

(***************************************************************************)
(* Tool invocations: the inputs drawn, and the serving path of main().     *)
(***************************************************************************)
SeqsUpTo(S, n) == UNION {[1..k -> S] : k \in 0..n}

ServingEnv == [NOTION_TOKEN |-> "secret", XIAOZHI_WSS |-> None, MCP_ENDPOINT |-> "wss://mcp"]

\* documents of the service, as search returns them
Page(id, title) ==
    [id |-> Str(id), object |-> "page", properties |-> <<TitleProperty(title)>>]
P_meeting == Page(T_p1, T_Meeting_Notes)
P_resume == Page(T_p2, T_Resume_2023)
P_archive == Page(T_p3, T_Resume_Archive)
P_no_title == [id |-> Str(T_p6), object |-> "page",
               properties |-> <<[type |-> "rich_text", rich_text |-> <<>>]>>]
P_no_id == [object |-> "page", properties |-> <<TitleProperty(T_Footnotes)>>]
P_empty == EmptyDict
SearchPages == {P_meeting, P_resume, P_archive, P_no_title, P_no_id, P_empty}
Queries == {T_my_resume_notes, T_notes, T_untitled_query, T_zzz, T_jianli, T_note_taking}

\* blocks of the service, as blocks.children.list returns them
Paragraph(id, spans) ==
    [id |-> id, type |-> "paragraph", has_children |-> FALSE,
     paragraph |-> [rich_text |-> [i \in DOMAIN spans |-> [plain_text |-> spans[i]]]]]
B_a == Paragraph("b1", <<T_a>>)
B_b == Paragraph("b2", <<T_b>>)
B_ab == Paragraph("b3", <<T_a, T_b>>)
B_padded == Paragraph("b4", <<T_space_a, T_space>>)
B_blank == Paragraph("b5", <<T_space, T_newline>>)
B_no_spans == Paragraph("b6", <<>>)
B_multiline == Paragraph("b7", <<T_a_newline, T_b>>)
B_untyped == [id |-> "b8"]
B_divider == [id |-> "b9", type |-> "divider", has_children |-> FALSE]
B_bare_span == [id |-> "b10", type |-> "paragraph", has_children |-> TRUE,
                paragraph |-> [rich_text |-> <<EmptyDict, [plain_text |-> T_b]>>]]
FlattenBlocks == {B_a, B_ab, B_padded, B_blank, B_no_spans, B_multiline, B_untyped,
                  B_divider, B_bare_span}
PageContents == {<<>>, <<B_a>>, <<B_b, B_a>>, <<B_blank, B_b>>}

\* an arguments mapping: each field absent (<<>>) or present (<<value>>)
MkArgs(page_id, query, keyword, utterance) ==
    LET field == [page_id |-> page_id, query |-> query, keyword |-> keyword,
                  utterance |-> utterance]
    IN  [k \in {f \in DOMAIN field : field[f] # <<>>} |-> field[k][1]]

ToolNames == page_read_aliases \cup {"list_notion_blocks", "get_page", ""}

AllArguments ==
    {MkArgs(p, q, k, u) :
        p \in {<<>>, <<Str(T_empty)>>, <<Str(T_blank)>>, <<Str(T_p1)>>,
               <<Str(T_p1_padded)>>, <<PyInt7>>, <<PyNone>>},
        q \in {<<>>, <<Str(T_empty)>>, <<Str(T_space)>>, <<Str(T_notes)>>, <<PyInt7>>},
        k \in {<<>>, <<Str(T_blank)>>, <<Str(T_resume)>>},
        u \in {<<>>, <<Str(T_my_resume_notes)>>}}

InitServing(requests, results, paginations) ==
    /\ env = ServingEnv
    /\ InitSuper
    /\ inbox \in {<<r>> : r \in requests}
    /\ outcome = <<>>
    /\ search_results \in results
    /\ block_pages \in paginations

\* any tool name with any arguments mapping
InitTool ==
    InitServing([name : ToolNames, arguments : AllArguments],
                {<<>>, <<P_meeting, P_resume>>},
                {<<<<B_a>>, <<B_b>>>>})

\* any pagination of a document's blocks
InitFetch ==
    InitServing([name : {"get_notion_page", "list_notion_blocks"},
                 arguments : {[page_id |-> Str(T_p1)], [keyword |-> Str(T_resume)]}],
                {<<P_resume>>},
                UNION {[1..n -> PageContents] : n \in 1..MaxPages})

\* any block sequence
InitFlatten ==
    InitServing([name : {"get_notion_page", "import_mcp_context"},
                 arguments : {[page_id |-> Str(T_p1)]}],
                {<<>>},
                {<<blocks>> : blocks \in SeqsUpTo(FlattenBlocks, MaxBlocks)})

\* any search result list, for any query
InitSearch ==
    InitServing([name : {"study_notion_notes"},
                 arguments : {[query |-> Str(q)] : q \in Queries}],
                SeqsUpTo(SearchPages, MaxResults),
                {<<<<B_a>>>>})

NextServing ==
    \/ Startup
    \/ RunOnce
    \/ ConnectOk
    \/ CallTool

ToolSpec == InitTool /\ [][NextServing]_vars
FetchSpec == InitFetch /\ [][NextServing]_vars
FlattenSpec == InitFlatten /\ [][NextServing]_vars
SearchSpec == InitSearch /\ [][NextServing]_vars

(***************************************************************************)
(* Connection Supervisor: the properties checked.                          *)
(***************************************************************************)
InLoop == pc \in {"attempt", "connecting", "serving", "except", "sleeping"}

\* 1, 2, 4, 8, 16, 32, 60, 60, 60, ...
ExpectedDelay(i) == IF i >= 7 THEN 60 ELSE 2 ^ (i - 1)

\* C1: while no session returns cleanly, the i-th delay slept is the i-th element of
\* 1, 2, 4, 8, 16, 32, 60, 60, 60, ..., and inside the loop delay_seconds is always
\* between 1 and 60.
C1_BackoffSequence ==
    /\ InLoop => delay_seconds >= 1 /\ delay_seconds <= 60
    /\ \A i \in 1..Len(waits) : waits[i] = ExpectedDelay(i)

C1_NineFailures == Len(waits) >= 9 /\ waits[6] = 32 /\ waits[7] = 60 /\ waits[9] = 60

\* C2: at the start of the connection attempt that follows a clean return of _run_once
\* delay_seconds is 1, whatever it was when the session ended; after a session that
\* ended with an exception delay_seconds is never below what it was, and is above 1
\* at the start of the next attempt.
C2_CleanReturnResets ==
    /\ pc = "attempt" /\ prevEnd = "clean" => delay_seconds = 1
    /\ InLoop /\ prevEnd = "exception" => delay_seconds >= prevDelay
    /\ pc = "attempt" /\ prevEnd = "exception" => delay_seconds > 1

C2_ResetFromSixty ==
    pc = "attempt" /\ prevEnd = "clean" /\ prevDelay = 60 /\ delay_seconds = 1

\* C3 as stated: whenever a connection attempt starts after an earlier one ended
\* (with an exception or cleanly), the delay the earlier one ended with was slept
\* in between.
C3_AlwaysWaits ==
    pc = "attempt" /\ prevEnd # "none" => slept >= 1 /\ slept = prevDelay

\* C3 amended: after an attempt that ended with an exception the Supervisor sleeps
\* for the delay the attempt ended with and only then doubles it (capped at 60);
\* after a clean return it sleeps for nothing and the next attempt starts at once.
C3_WaitsAfterException ==
    /\ pc \in {"except", "sleeping"} =>
           prevEnd = "exception" /\ slept = 0 /\ delay_seconds = prevDelay
    /\ pc \in {"attempt", "connecting", "serving"} /\ prevEnd = "exception" =>
           /\ slept >= 1
           /\ slept = prevDelay
           /\ delay_seconds = (IF 2 * slept > 60 THEN 60 ELSE 2 * slept)
    /\ pc \in {"attempt", "connecting", "serving"} /\ prevEnd = "clean" => slept = 0

C3_SleptThenDoubled ==
    pc = "attempt" /\ prevEnd = "exception" /\ slept = 4 /\ delay_seconds = 8

\* C4: main() raises only the configuration errors of startup, before the client
\* is bound and before any connection attempt; once in the loop, every caught
\* failure and every return to the top of the loop leads to a new connection
\* attempt.
C4_NoTerminalState ==
    /\ [](pc = "raised" =>
             /\ error \in {"Missing NOTION_TOKEN", "Missing XIAOZHI_WSS or MCP_ENDPOINT"}
             /\ ~notion
             /\ prevEnd = "none")
    /\ [](InLoop => error = None)
    /\ (pc \in {"attempt", "except", "sleeping"}) ~> (pc = "connecting")

C4_RetryAfterFailures ==
    pc = "connecting" /\ prevEnd = "exception" /\ Len(waits) >= 3 /\ error = None

(***************************************************************************)
(* Tool invocations: the properties checked.                               *)
(***************************************************************************)
\* the seven names list_tools advertises
RegisteredTools ==
    {"get_notion_page", "read_notion_page", "study_notion_notes", "import_mcp_context",
     "read_page_content", "summarize_notion_page", "list_notion_blocks"}

CallsOf(o, op) == SelectSeq(o.calls, LAMBDA c : c.op = op)

NonBlank(t) == \E i \in DOMAIN t : ~IsSpace(t[i])

\* field k of the arguments is a string that is not blank
TextField(args, k) == k \in DOMAIN args /\ IsStr(args[k]) /\ NonBlank(args[k].s)

\* r is t without its leading and trailing whitespace
IsTrimOf(r, t) ==
    \E i, j \in DOMAIN t :
        /\ i <= j
        /\ r = SubSeq(t, i, j)
        /\ ~IsSpace(t[i])
        /\ ~IsSpace(t[j])
        /\ \A k \in DOMAIN t : k < i \/ k > j => IsSpace(t[k])

\* C5: an invocation whose name is not registered fails with the unknown-tool error
\* and makes no external call, whatever its arguments.
C5_UnknownToolFails ==
    \A n \in DOMAIN outcome :
        outcome[n].name \notin RegisteredTools =>
            outcome[n].err = "ValueError: Unknown tool" /\ outcome[n].calls = <<>>

C5_UnknownWithPageId ==
    /\ outcome # <<>>
    /\ outcome[1].name = "get_page"
    /\ TextField(outcome[1].arguments, "page_id")
    /\ TextField(outcome[1].arguments, "keyword")
    /\ outcome[1].err = "ValueError: Unknown tool"

\* C6 as stated: a page_id that is a non-blank string is returned exactly as
\* supplied, with no matched title and without a search.
C6_PageIdVerbatim ==
    \A n \in DOMAIN outcome :
        outcome[n].name \in RegisteredTools /\ TextField(outcome[n].arguments, "page_id") =>
            /\ outcome[n].err = ""
            /\ outcome[n].page_id = outcome[n].arguments.page_id
            /\ outcome[n].matched_title = PyNone
            /\ CallsOf(outcome[n], "search") = <<>>

\* C6 amended: a page_id that is a non-blank string is returned with its leading and
\* trailing whitespace removed, with no matched title and without a search,
\* whatever query, keyword and utterance hold.
C6_PageIdTrimmed ==
    \A n \in DOMAIN outcome :
        outcome[n].name \in RegisteredTools /\ TextField(outcome[n].arguments, "page_id") =>
            /\ outcome[n].err = ""
            /\ IsStr(outcome[n].page_id)
            /\ IsTrimOf(outcome[n].page_id.s, outcome[n].arguments.page_id.s)
            /\ outcome[n].matched_title = PyNone
            /\ CallsOf(outcome[n], "search") = <<>>

C6_PaddedPageIdWithQuery ==
    /\ outcome # <<>>
    /\ outcome[1].name = "list_notion_blocks"
    /\ TextField(outcome[1].arguments, "page_id")
    /\ outcome[1].arguments.page_id = Str(T_p1_padded)
    /\ TextField(outcome[1].arguments, "query")
    /\ outcome[1].page_id = Str(T_p1)
    /\ search_results # <<>>

\* the free text C7 describes: the first of query, keyword, utterance that is a
\* non-blank string (<<>> when there is none)
FreeText(args) ==
    IF TextField(args, "query") THEN args.query.s
    ELSE IF TextField(args, "keyword") THEN args.keyword.s
    ELSE IF TextField(args, "utterance") THEN args.utterance.s
    ELSE <<>>

\* C7: without a usable page_id, the first non-blank string among query, keyword,
\* utterance is searched for, exactly once; the invocation fails with the
\* invalid-argument error only when none of the three is a non-blank string.
C7_FirstNonBlankField ==
    \A n \in DOMAIN outcome :
        outcome[n].name \in RegisteredTools /\ ~TextField(outcome[n].arguments, "page_id") =>
            IF FreeText(outcome[n].arguments) # <<>>
            THEN /\ Len(CallsOf(outcome[n], "search")) = 1
                 /\ IsTrimOf(CallsOf(outcome[n], "search")[1].arg.s,
                             FreeText(outcome[n].arguments))
                 /\ outcome[n].err # "ValueError: Please provide page_id or query/keyword"
            ELSE /\ CallsOf(outcome[n], "search") = <<>>
                 /\ outcome[n].err = "ValueError: Please provide page_id or query/keyword"

\* C8: over a pagination of N pages _fetch_all_blocks makes N list calls, the first
\* without a cursor and each later one with the next_cursor of the response before
\* it, and returns the pages' blocks concatenated in page order.
C8_PaginationCalls ==
    \A n \in DOMAIN outcome :
        outcome[n].err = "" =>
            LET lists == CallsOf(outcome[n], "list")
            IN  /\ Len(lists) = Len(block_pages)
                /\ lists[1].start_cursor = 0
                /\ \A i \in 2..Len(lists) :
                       /\ lists[i].arg = outcome[n].page_id
                       /\ lists[i].start_cursor =
                              blocks_children_list(outcome[n].page_id,
                                                   lists[i - 1].start_cursor).next_cursor
                /\ outcome[n].blocks = concat(block_pages)

C8_ThreePages ==
    /\ outcome # <<>>
    /\ outcome[1].err = ""
    /\ Len(block_pages) >= 3
    /\ block_pages[1] = <<B_b, B_a>>
    /\ block_pages[2] = <<>>
    /\ Len(CallsOf(outcome[1], "list")) >= 3
    /\ Len(outcome[1].blocks) >= 4

\* the number of lines of a text
LineCount(t) == IF t = <<>> THEN 0 ELSE 1 + Cardinality({i \in DOMAIN t : t[i] = "\n"})

\* the lines of a text
RECURSIVE Lines(_, _, _)
Lines(t, i, cur) ==
    IF t = <<>> THEN <<>>
    ELSE IF i > Len(t) THEN <<cur>>
    ELSE IF t[i] = "\n" THEN <<cur>> \o Lines(t, i + 1, <<>>)
    ELSE Lines(t, i + 1, Append(cur, t[i]))

BlockTexts(blocks) == [i \in DOMAIN blocks |-> _extract_rich_text(blocks[i])]

NonEmptyBlocks(blocks) == {i \in DOMAIN blocks : _extract_rich_text(blocks[i]) # <<>>}

\* C9 as stated: the flattened text has at most as many lines as there are blocks,
\* and exactly as many as there are blocks whose extracted text is non-empty.
C9_LineCount ==
    \A n \in DOMAIN outcome :
        outcome[n].err = "" /\ "content" \in DOMAIN outcome[n].result =>
            /\ LineCount(outcome[n].result.content) <= Len(outcome[n].blocks)
            /\ LineCount(outcome[n].result.content)
                   = Cardinality(NonEmptyBlocks(outcome[n].blocks))

\* C9 amended: the lines of the flattened text are the lines of the blocks'
\* extracted texts, block after block in fetch order, an empty text giving no
\* line; when no extracted text holds a newline, their number is the number of
\* blocks whose extracted text is non-empty, and so at most the number of blocks.
C9_LinesOfBlocks ==
    \A n \in DOMAIN outcome :
        outcome[n].err = "" /\ "content" \in DOMAIN outcome[n].result =>
            LET texts == BlockTexts(outcome[n].blocks)
                content == outcome[n].result.content
            IN  /\ Lines(content, 1, <<>>)
                       = concat([i \in DOMAIN texts |-> Lines(texts[i], 1, <<>>)])
                /\ (\A i \in DOMAIN texts : LineCount(texts[i]) <= 1) =>
                       /\ LineCount(content) = Cardinality(NonEmptyBlocks(outcome[n].blocks))
                       /\ LineCount(content) <= Len(outcome[n].blocks)

C9_MixedBlocks ==
    /\ outcome # <<>>
    /\ outcome[1].err = ""
    /\ outcome[1].blocks = <<B_blank, B_padded, B_ab>>
    /\ outcome[1].result.content = <<"a", "\n", "a", "b">>

\* the first candidate whose title scores highest
BestCandidate(query_text) ==
    LET score(i) == _score_title_match(_extract_title(search_results[i]), query_text)
    IN  CHOOSE i \in DOMAIN search_results :
            \A j \in DOMAIN search_results :
                score(j) < score(i) \/ (score(j) = score(i) /\ i <= j)

\* C10: a search that finds nothing fails with the not-found error; otherwise the
\* first of the highest-scoring candidates is chosen: its id is returned, or the
\* search fails with the data error if it has no id.
C10_BestCandidateWins ==
    \A n \in DOMAIN outcome :
        CallsOf(outcome[n], "search") # <<>> =>
            IF search_results = <<>>
            THEN outcome[n].err = "ValueError: No Notion page found for query"
            ELSE LET best == search_results[
                                 BestCandidate(CallsOf(outcome[n], "search")[1].arg.s)]
                 IN  IF "id" \in DOMAIN best
                     THEN outcome[n].err = "" /\ outcome[n].page_id = best.id
                     ELSE outcome[n].err
                              = "ValueError: Found result without page id for query"

====
